---- MODULE Spec2Model ----
(***************************************************************************)
(* Model of config/databases/core.py: environment-driven database          *)
(* configuration (PostgreSQL, MySQL, SQLite), the configuration factory    *)
(* with its class-level registry, and the DatabaseManager with its         *)
(* lru_cache'd get_configuration and the multi-database assembly.          *)
(*                                                                         *)
(* os.environ is read at every call and written by no code of the          *)
(* repository (load_dotenv() fills it once at import), so it is chosen by  *)
(* Init and constant along a behaviour.                                    *)
(***************************************************************************)
EXTENDS Integers, Sequences, FiniteSets, TLC

VARIABLES
    env,        \* os.environ: prefix -> the variables <PREFIX>_*
    dirs,       \* the directories that exist in the file system
    registry,   \* DatabaseConfigurationFactory._registry, in insertion order
    cache,      \* the lru_cache of DatabaseManager.get_configuration, oldest first
    insts,      \* the configuration objects get_configuration has built, each
                \* with the manager that built it; an object's identity is its index
    last,       \* the last call: its arguments and its outcome
    copies,     \* the dicts made by self.options.options.copy(); a dict's
                \* identity is its index
    results,    \* the dicts get_django_config has returned, which the caller
                \* holds: the object called, the dict as returned, the dict
                \* now, and whether the caller had changed an earlier result
                \* of the object when the call was made
    writes      \* the number of writes the caller has made to those dicts

vars == <<env, dirs, registry, cache, insts, last, copies, results, writes>>

\* The caller's side of the heap.
callerVars == <<copies, results, writes>>

----------------------------------------------------------------------------
(* Python values.  A value carries its type, so that a string that should  *)
(* have been parsed ("5433") and the integer (5433) are different values.  *)

PyNone == [type |-> "NoneType", int |-> 0, str |-> ""]
PyStr(s) == [type |-> "str", int |-> 0, str |-> s]
PyInt(n) == [type |-> "int", int |-> n, str |-> ""]

\* bool(v): None, '' and 0 are false.
Truthy(v) ==
    CASE v.type = "NoneType" -> FALSE
      [] v.type = "str" -> v.str # ""
      [] OTHER -> v.int # 0

\* str(v) for the values that occur.
ToStr(v) ==
    CASE v.type = "NoneType" -> "None"
      [] v.type = "str" -> v.str
      [] OTHER -> IF v.int = 0 THEN "0" ELSE "<int>"

\* str.strip() on the strings of the model: whitespace-only strings become ''.
Strip(s) == IF s \in {"", " "} THEN "" ELSE s

\* str.lower() on the identifiers of the model.
Lower(s) ==
    CASE s = "MySQL" -> "mysql"
      [] s = "SQLite3" -> "sqlite3"
      [] s = "Oracle" -> "oracle"
      [] s = "SSLMODE" -> "sslmode"
      [] s = "TRUE" -> "true"
      [] OTHER -> s

\* The decimal literals int() accepts, with their values.
IntLiterals == {<<"0", 0>>, <<"60", 60>>, <<"5433", 5433>>}

IsIntLiteral(s) == \E l \in IntLiterals : l[1] = s

IntOfLiteral(s) == (CHOOSE l \in IntLiterals : l[1] = s)[2]

\* An outcome of a call: a returned value, or a raised exception.
Return(v) == [ok |-> TRUE, val |-> v]
Raise(type, msg, names) ==
    [ok |-> FALSE, exc |-> [type |-> type, msg |-> msg, names |-> names]]

\* The exception classes and their bases.
ExceptionBases(type) ==
    CASE type = "MissingEnvironmentVariableError" ->
            {"MissingEnvironmentVariableError", "DatabaseConfigurationError", "Exception"}
      [] type = "UnsupportedDatabaseError" ->
            {"UnsupportedDatabaseError", "DatabaseConfigurationError", "Exception"}
      [] type = "DatabaseConnectionError" ->
            {"DatabaseConnectionError", "DatabaseConfigurationError", "Exception"}
      [] type = "DatabaseConfigurationError" ->
            {"DatabaseConfigurationError", "Exception"}
      [] OTHER -> {type, "Exception"}

IsInstance(exc, type) == type \in ExceptionBases(exc.type)

\* ', '.join(seq)
RECURSIVE JoinComma(_)
JoinComma(seq) ==
    IF Len(seq) = 0 THEN ""
    ELSE IF Len(seq) = 1 THEN seq[1]
    ELSE seq[1] \o ", " \o JoinComma(Tail(seq))

----------------------------------------------------------------------------
(* Paths.                                                                  *)

BaseDirs == {"/srv/app"}
KnownDirs == BaseDirs \cup {"/data", "/ro/db"}
FileNames == {"app.db", "db.sqlite3", "appdb"}

\* The directories os.makedirs cannot create (OSError).
ReadOnlyDirs == {"/ro/db"}

\* os.path.isabs
IsAbs(path) == \E d \in KnownDirs, f \in FileNames : path = d \o "/" \o f

\* os.path.join(base, path)
PathJoin(base, path) == IF IsAbs(path) THEN path ELSE base \o "/" \o path

\* os.path.dirname
Dirname(path) ==
    IF IsAbs(path)
    THEN CHOOSE d \in KnownDirs : \E f \in FileNames : path = d \o "/" \o f
    ELSE ""

----------------------------------------------------------------------------
(* Dictionaries with string keys, as sets of <<key, value>> pairs.         *)

DictSet(d, k, v) == {p \in d : p[1] # k} \cup {<<k, v>>}

----------------------------------------------------------------------------
(* The configuration classes.                                              *)

Classes == {"PostgreSQLConfiguration", "MySQLConfiguration", "SQLiteConfiguration"}

ENGINE_NAME(cls) ==
    CASE cls = "PostgreSQLConfiguration" -> "django.db.backends.postgresql"
      [] cls = "MySQLConfiguration" -> "django.db.backends.mysql"
      [] cls = "SQLiteConfiguration" -> "django.db.backends.sqlite3"

DEFAULT_PORT(cls) ==
    CASE cls = "PostgreSQLConfiguration" -> PyInt(5432)
      [] cls = "MySQLConfiguration" -> PyInt(3306)
      [] cls = "SQLiteConfiguration" -> PyNone

REQUIRED_ENV_VARS(cls) ==
    CASE cls = "PostgreSQLConfiguration" -> <<"NAME", "USER", "PASSWORD", "HOST">>
      [] cls = "MySQLConfiguration" -> <<"NAME", "USER", "PASSWORD", "HOST">>
      [] cls = "SQLiteConfiguration" -> <<"NAME">>

\* f"{self.env_prefix}_{var_name}"
FullVarName(prefix, var_name) == prefix \o "_" \o var_name

\* os.environ.get(f"{prefix}_{var_name}", default)
EnvironGet(environ, prefix, var_name, default) ==
    IF environ[prefix][var_name] = PyNone THEN default ELSE environ[prefix][var_name]

_get_env_var(environ, prefix, var_name, default, required) ==
    LET value == EnvironGet(environ, prefix, var_name, default)
    IN  IF required /\ (value = PyNone \/ Strip(ToStr(value)) = "")
        THEN Raise("MissingEnvironmentVariableError",
                   "Required environment variable '" \o FullVarName(prefix, var_name)
                       \o "' is missing or is empty",
                   <<FullVarName(prefix, var_name)>>)
        ELSE Return(value)

\* The dataclass DatabaseCredentials with its __post_init__.
DatabaseCredentials(name, user, password, host, port) ==
    IF ~Truthy(name)
    THEN Raise("ValueError", "Database name is required.", <<>>)
    ELSE Return([name |-> name, user |-> user, password |-> password,
                 host |-> host, port |-> port])

\* BaseDatabaseConfiguration._load_credentials
Base_load_credentials(environ, prefix) ==
    LET name == _get_env_var(environ, prefix, "NAME", PyNone, TRUE)
    IN  IF ~name.ok THEN name
        ELSE DatabaseCredentials(
                 name.val,
                 _get_env_var(environ, prefix, "USER", PyNone, FALSE).val,
                 _get_env_var(environ, prefix, "PASSWORD", PyNone, FALSE).val,
                 _get_env_var(environ, prefix, "HOST", PyNone, FALSE).val,
                 _get_env_var(environ, prefix, "PORT", PyNone, FALSE).val)

\* SQLiteConfiguration._load_credentials
SQLite_load_credentials(environ, prefix, base_dir) ==
    LET got == _get_env_var(environ, prefix, "NAME", PyStr("db.sqlite3"), TRUE)
    IN  IF ~got.ok THEN got
        ELSE LET db_name ==
                     IF Truthy(base_dir) /\ ~IsAbs(got.val.str)
                     THEN PyStr(PathJoin(base_dir.str, got.val.str))
                     ELSE got.val
             IN  DatabaseCredentials(db_name, PyNone, PyNone, PyNone, PyNone)

_load_credentials(cls, environ, prefix, base_dir) ==
    IF cls = "SQLiteConfiguration"
    THEN SQLite_load_credentials(environ, prefix, base_dir)
    ELSE Base_load_credentials(environ, prefix)

\* _parse_port: defined by the class, called by none of its methods.
_parse_port(cls, port_value) ==
    IF port_value = PyNone THEN DEFAULT_PORT(cls)
    ELSE IF port_value.type = "int" THEN port_value
    ELSE IF IsIntLiteral(port_value.str) THEN PyInt(IntOfLiteral(port_value.str))
    ELSE DEFAULT_PORT(cls)

_parse_boolean(value) == Lower(ToStr(value)) \in {"true", "1", "yes", "on"}

\* int(value)
PyIntOf(value) ==
    CASE value.type = "int" -> Return(value.int)
      [] value.type = "NoneType" ->
            Raise("TypeError", "int() argument must be a string or a number", <<>>)
      [] OTHER ->
            IF IsIntLiteral(value.str) THEN Return(IntOfLiteral(value.str))
            ELSE Raise("ValueError",
                       "invalid literal for int() with base 10: '" \o value.str \o "'",
                       <<>>)

\* The <PREFIX>_OPTIONS_* variables of os.environ, in its order: a sequence of
\* <<name after the OPTIONS_ prefix, value>>.
RECURSIVE CollectOptions(_, _)
CollectOptions(items, options) ==
    IF Len(items) = 0 THEN options
    ELSE CollectOptions(Tail(items),
                        DictSet(options, Lower(items[1][1]), items[1][2]))

_load_custom_options(environ, prefix) ==
    CollectOptions(environ[prefix]["OPTIONS"], {})

_load_options(environ, prefix) ==
    LET age == PyIntOf(_get_env_var(environ, prefix, "CONN_MAX_AGE", PyInt(0), FALSE).val)
    IN  IF ~age.ok THEN age
        ELSE Return([
            charset |-> _get_env_var(environ, prefix, "CHARSET", PyNone, FALSE).val,
            timezone |-> _get_env_var(environ, prefix, "TIMEZONE", PyNone, FALSE).val,
            atomic_requests |->
                _parse_boolean(_get_env_var(environ, prefix, "ATOMIC_REQUEST",
                                            PyStr("false"), FALSE).val),
            autocommit |-> TRUE,
            conn_max_age |-> age.val,
            options |-> _load_custom_options(environ, prefix)])

\* The names of the required variables that are unset or empty.
MissingVars(cls, environ, prefix) ==
    LET req == REQUIRED_ENV_VARS(cls)
        IsMissing(var) == ~Truthy(_get_env_var(environ, prefix, var, PyNone, FALSE).val)
        RECURSIVE Collect(_)
        Collect(i) ==
            IF i > Len(req) THEN <<>>
            ELSE (IF IsMissing(req[i]) THEN <<FullVarName(prefix, req[i])>> ELSE <<>>)
                 \o Collect(i + 1)
    IN  Collect(1)

\* _validate_database_specific: the outcome is the set of directories that
\* exist afterwards (SQLite creates the directory of its file).
_validate_database_specific(cls, credentials, d) ==
    CASE cls = "SQLiteConfiguration" ->
            LET db_dir == Dirname(credentials.name.str)
            IN  IF db_dir # "" /\ db_dir \notin d
                THEN IF db_dir \in ReadOnlyDirs
                     THEN Raise("DatabaseConfigurationError",
                                "Cannot create directory for SQLite database: "
                                    \o db_dir, <<>>)
                     ELSE Return(d \cup {db_dir})
                ELSE Return(d)
      [] OTHER ->
            LET who == IF cls = "PostgreSQLConfiguration" THEN "PostgreSQL" ELSE "MySQL"
            IN  IF ~Truthy(credentials.user)
                THEN Raise("DatabaseConfigurationError", who \o " requires a username", <<>>)
                ELSE IF ~Truthy(credentials.password)
                THEN Raise("DatabaseConfigurationError", who \o " requires a password", <<>>)
                ELSE IF ~Truthy(credentials.host)
                THEN Raise("DatabaseConfigurationError", who \o " requires a host", <<>>)
                ELSE Return(d)

_validate_configuration(cls, environ, prefix, credentials, d) ==
    LET missing_vars == MissingVars(cls, environ, prefix)
    IN  IF Len(missing_vars) > 0
        THEN Raise("MissingEnvironmentVariableError",
                   "Missing required environment variables: " \o JoinComma(missing_vars),
                   missing_vars)
        ELSE _validate_database_specific(cls, credentials, d)

\* __init__, its last step: valid is the outcome of _validate_configuration.
NewValidated(cls, prefix, base_dir, credentials, options, valid) ==
    IF ~valid.ok THEN valid
    ELSE Return([obj |-> [cls |-> cls,
                          env_prefix |-> prefix,
                          base_dir |-> base_dir,
                          credentials |-> credentials,
                          options |-> options],
                 dirs |-> valid.val])

\* __init__ from self.options = self._load_options() on.
NewWithOptions(cls, environ, d, prefix, base_dir, credentials, options) ==
    IF ~options.ok THEN options
    ELSE NewValidated(cls, prefix, base_dir, credentials, options.val,
                      _validate_configuration(cls, environ, prefix, credentials, d))

\* __init__ from self.credentials = self._load_credentials() on.
NewWithCredentials(cls, environ, d, prefix, base_dir, credentials) ==
    IF ~credentials.ok THEN credentials
    ELSE NewWithOptions(cls, environ, d, prefix, base_dir, credentials.val,
                        _load_options(environ, prefix))

\* cls(environment_prefix[, base_dir]): __init__.  The outcome is the new
\* object and the directories that exist afterwards, or the exception.
New(cls, environ, d, prefix, base_dir) ==
    NewWithCredentials(cls, environ, d, prefix, base_dir,
                       _load_credentials(cls, environ, prefix, base_dir))

\* The directories after a construction, raised or not.
DirsAfter(outcome, d) == IF outcome.ok THEN outcome.val.dirs ELSE d

\* The port emitted as loaded, without "or self.DEFAULT_PORT".
EmittedPortAsLoaded(self) == self.credentials.port

\* 'PORT': self.credentials.port or self.DEFAULT_PORT
EmittedPort(self) ==
    IF Truthy(self.credentials.port) THEN self.credentials.port
    ELSE DEFAULT_PORT(self.cls)

PostgreSQL_get_django_config(self) ==
    LET charset == self.options.charset
        timezone == self.options.timezone
        config == [ENGINE |-> ENGINE_NAME(self.cls),
                   NAME |-> self.credentials.name,
                   USER |-> self.credentials.user,
                   PASSWORD |-> self.credentials.password,
                   HOST |-> self.credentials.host,
                   PORT |-> EmittedPort(self),
                   ATOMIC_REQUESTS |-> self.options.atomic_requests,
                   AUTOCOMMIT |-> self.options.autocommit,
                   CONN_MAX_AGE |-> self.options.conn_max_age,
                   OPTIONS |-> self.options.options]
    IN  IF Truthy(charset)
        THEN LET c1 == [config EXCEPT !.OPTIONS = DictSet(@, "charset", charset.str)]
             IN  IF Truthy(timezone)
                 THEN [k \in DOMAIN c1 \cup {"TIME_ZONE"} |->
                          IF k = "TIME_ZONE" THEN timezone.str ELSE c1[k]]
                 ELSE c1
        ELSE config

MySQL_get_django_config(self) ==
    LET charset == self.options.charset
        timezone == self.options.timezone
        config == [ENGINE |-> ENGINE_NAME(self.cls),
                   NAME |-> self.credentials.name,
                   USER |-> self.credentials.user,
                   PASSWORD |-> self.credentials.password,
                   HOST |-> self.credentials.host,
                   PORT |-> EmittedPort(self),
                   ATOMIC_REQUESTS |-> self.options.atomic_requests,
                   AUTOCOMMIT |-> self.options.autocommit,
                   CONN_MAX_AGE |-> self.options.conn_max_age,
                   OPTIONS |-> self.options.options]
        c1 == IF Truthy(charset)
              THEN [config EXCEPT !.OPTIONS = DictSet(@, "charset", charset.str)]
              ELSE config
    IN  IF Truthy(timezone)
        THEN [c1 EXCEPT !.OPTIONS = DictSet(@, "init_command",
                 "SET sql_mode='STRICT_TRANS_TABLES'; SET time_zone='"
                     \o timezone.str \o "'")]
        ELSE c1

SQLite_get_django_config(self) ==
    [ENGINE |-> ENGINE_NAME(self.cls),
     NAME |-> self.credentials.name,
     ATOMIC_REQUESTS |-> self.options.atomic_requests,
     AUTOCOMMIT |-> self.options.autocommit,
     CONN_MAX_AGE |-> self.options.conn_max_age,
     OPTIONS |-> self.options.options]

get_django_config(self) ==
    CASE self.cls = "PostgreSQLConfiguration" -> PostgreSQL_get_django_config(self)
      [] self.cls = "MySQLConfiguration" -> MySQL_get_django_config(self)
      [] self.cls = "SQLiteConfiguration" -> SQLite_get_django_config(self)

----------------------------------------------------------------------------
(* Dicts as objects.  get_django_config above gives the contents of the    *)
(* dict a call returns; a caller that writes to the returned dict needs    *)
(* its identity too.  The value under 'OPTIONS' is a reference, to a dict  *)
(* made by .copy() or to the options dict of a configuration object.       *)

\* A reference to copies[id] ("copy") or to insts[id].obj.options.options
\* ("options").
Ref(owner, id) == [owner |-> owner, id |-> id]

IsRef(v) == DOMAIN v = {"owner", "id"}

\* The contents of the dict a reference points to.
Deref(ins, cps, ref) ==
    IF ref.owner = "copy" THEN cps[ref.id] ELSE ins[ref.id].obj.options.options

\* The heap after the dict a reference points to has got the contents d.
Store(ins, cps, ref, d) ==
    IF ref.owner = "copy"
    THEN [insts |-> ins,
          copies |-> IF ref.id = Len(cps) + 1 THEN Append(cps, d)
                     ELSE [cps EXCEPT ![ref.id] = d]]
    ELSE [insts |-> [ins EXCEPT ![ref.id].obj.options.options = d],
          copies |-> cps]

\* 'OPTIONS': self.options.options without .copy(): the object's own dict.
OptionsShared(i, cps) == Ref("options", i)

\* 'OPTIONS': self.options.options.copy(): a new dict.
OptionsCopy(i, cps) == Ref("copy", Len(cps) + 1)

\* insts[i].get_django_config() on the heap: the dict returned, whose
\* 'OPTIONS' is a reference, and the heap after the writes the method makes
\* through config['OPTIONS'].
GetDjangoConfigOnHeap(ins, cps, i) ==
    LET contents == get_django_config(ins[i].obj)
        ref == OptionsCopy(i, cps)
        stored == Store(ins, cps, ref, contents.OPTIONS)
    IN  [config |-> [contents EXCEPT !.OPTIONS = ref],
         insts |-> stored.insts,
         copies |-> stored.copies]

\* A returned dict with the contents of its 'OPTIONS' in place of the
\* reference: what == compares.
Contents(ins, cps, config) ==
    IF "OPTIONS" \in DOMAIN config /\ IsRef(config.OPTIONS)
    THEN [config EXCEPT !.OPTIONS = Deref(ins, cps, @)]
    ELSE config

\* d[key] = value and del d[key] on a returned dict.
SetItem(config, key, value) ==
    [k \in DOMAIN config \cup {key} |-> IF k = key THEN value ELSE config[k]]

DelItem(config, key) == [k \in DOMAIN config \ {key} |-> config[k]]

\* del d[key] on an options dict.
DictDel(d, k) == {p \in d : p[1] # k}

DictHasKey(d, k) == \E p \in d : p[1] = k

----------------------------------------------------------------------------
(* DatabaseConfigurationFactory: the registry is a class attribute, a      *)
(* dict in insertion order, modelled as a sequence of entries.             *)

InitialRegistry ==
    << [name |-> "postgresql", cls |-> "PostgreSQLConfiguration"],
       [name |-> "postgres", cls |-> "PostgreSQLConfiguration"],
       [name |-> "mysql", cls |-> "MySQLConfiguration"],
       [name |-> "sqlite", cls |-> "SQLiteConfiguration"],
       [name |-> "sqlite3", cls |-> "SQLiteConfiguration"] >>

\* list(cls._registry.keys())
get_available_databases(reg) == [i \in 1..Len(reg) |-> reg[i].name]

RegistryHas(reg, name) == \E i \in 1..Len(reg) : reg[i].name = name

RegistryGet(reg, name) == reg[CHOOSE i \in 1..Len(reg) : reg[i].name = name].cls

\* cls._registry[name.lower()] = config_class, after the issubclass test.
register_database(reg, name, config_class) ==
    IF config_class \notin Classes
    THEN Raise("TypeError",
               "Configuration class must inherit from BaseDatabaseConfiguration", <<>>)
    ELSE LET key == Lower(name)
         IN  Return(IF RegistryHas(reg, key)
                    THEN [i \in 1..Len(reg) |->
                             IF reg[i].name = key
                             THEN [name |-> key, cls |-> config_class] ELSE reg[i]]
                    ELSE Append(reg, [name |-> key, cls |-> config_class]))

\* The keyword arguments of create: environment_prefix, and base_dir when
\* has_base_dir.
Kwargs(prefix, has_base_dir, base_dir) ==
    [environment_prefix |-> prefix, has_base_dir |-> has_base_dir,
     base_dir |-> base_dir]

\* config_class(**kwargs): only SQLiteConfiguration.__init__ takes base_dir.
Construct(config_class, environ, d, kwargs) ==
    IF kwargs.has_base_dir /\ config_class # "SQLiteConfiguration"
    THEN Raise("TypeError",
               "__init__() got an unexpected keyword argument 'base_dir'", <<>>)
    ELSE New(config_class, environ, d, kwargs.environment_prefix,
             IF kwargs.has_base_dir THEN kwargs.base_dir ELSE PyNone)

\* create without database_type.lower().
create_case_sensitive(reg, environ, d, database_type, kwargs) ==
    IF ~RegistryHas(reg, database_type)
    THEN Raise("UnsupportedDatabaseError",
               "Unsupported database type: " \o database_type \o ".Available types: "
                   \o JoinComma(get_available_databases(reg)) \o ".",
               get_available_databases(reg))
    ELSE Construct(RegistryGet(reg, database_type), environ, d, kwargs)

create(reg, environ, d, database_type, kwargs) ==
    LET lowered == Lower(database_type)
    IN  IF ~RegistryHas(reg, lowered)
        THEN Raise("UnsupportedDatabaseError",
                   "Unsupported database type: " \o lowered \o ".Available types: "
                       \o JoinComma(get_available_databases(reg)) \o ".",
                   get_available_databases(reg))
        ELSE Construct(RegistryGet(reg, lowered), environ, d, kwargs)

----------------------------------------------------------------------------
(* DatabaseManager.                                                        *)

Managers == {"m1", "m2"}

\* self.base_dir of the managers of the model.
ManagerBaseDir(m) == IF m = "m1" THEN PyStr("/srv/app") ELSE PyNone

\* engine_mapping with the SQLite engine string mapped to 'sqlite3'.
engine_mapping_sqlite3(database_type) ==
    CASE database_type = "django.db.backends.postgresql" -> "postgresql"
      [] database_type = "django.db.backends.mysql" -> "mysql"
      [] database_type = "django.db.backends.sqlite3" -> "sqlite3"
      [] OTHER -> database_type

\* engine_mapping of get_configuration.
engine_mapping(database_type) ==
    CASE database_type = "django.db.backends.postgresql" -> "postgresql"
      [] database_type = "django.db.backends.mysql" -> "mysql"
      [] database_type = "django.db.backends.sqlite3" -> "sqlite"
      [] OTHER -> database_type

\* Whether get_configuration passes base_dir on to the factory.
PassesBaseDir(database_type) == Lower(database_type) = "sqlite"

\* except Exception as exc: raise DatabaseConfigurationError(...)
WrapFailure(made) ==
    IF made.ok THEN made
    ELSE Raise("DatabaseConfigurationError",
               "Database configuration failed: " \o made.exc.msg,
               made.exc.names)

\* The body of get_configuration (what a cache miss runs).
get_configuration(reg, environ, d, base_dir, environment_prefix) ==
    LET engine == EnvironGet(environ, environment_prefix, "ENGINE", PyNone)
        database_type == engine_mapping(engine.str)
    IN  IF ~Truthy(engine)
        THEN New("SQLiteConfiguration", environ, d, environment_prefix, base_dir)
        ELSE WrapFailure(create(reg, environ, d, database_type,
                                Kwargs(environment_prefix,
                                       PassesBaseDir(database_type), base_dir)))

\* @lru_cache(maxsize=1)
maxsize == 1

\* CacheKey with the prefix left out of the key.
CacheKeyOfSelfOnly(m, environment_prefix) == <<m>>

\* The key lru_cache makes of the call get_configuration(self, prefix).
CacheKey(m, environment_prefix) == <<m, environment_prefix>>

CacheHit(c, key) == \E i \in 1..Len(c) : c[i].key = key

CacheValue(c, key) == c[CHOOSE i \in 1..Len(c) : c[i].key = key].val

\* A hit makes the entry the most recent one.
CacheTouch(c, key) ==
    SelectSeq(c, LAMBDA e : e.key # key) \o SelectSeq(c, LAMBDA e : e.key = key)

\* A miss that returned is stored; the oldest entry goes when the cache is full.
CacheStore(c, key, val) ==
    LET added == Append(c, [key |-> key, val |-> val])
    IN  IF Len(added) > maxsize THEN SubSeq(added, Len(added) - maxsize + 1, Len(added))
        ELSE added

\* A call of the cached get_configuration: the outcome (the identity of the
\* returned object, or the exception) and the state it leaves.  An exception
\* is not cached.
CacheMiss(c, heap, d, m, key, made) ==
    IF made.ok
    THEN [out |-> Return(Len(heap) + 1),
          cache |-> CacheStore(c, key, Len(heap) + 1),
          insts |-> Append(heap, [obj |-> made.val.obj, self |-> m]),
          dirs |-> made.val.dirs]
    ELSE [out |-> made, cache |-> c, insts |-> heap, dirs |-> d]

CachedGetConfiguration(c, heap, reg, environ, d, m, environment_prefix) ==
    LET key == CacheKey(m, environment_prefix)
    IN  IF CacheHit(c, key)
        THEN [out |-> Return(CacheValue(c, key)), cache |-> CacheTouch(c, key),
              insts |-> heap, dirs |-> d]
        ELSE CacheMiss(c, heap, d, m, key,
                       get_configuration(reg, environ, d, ManagerBaseDir(m),
                                         environment_prefix))

\* One round of the loop of get_django_databases_config over (alias, env_prefix):
\* st is [config, raised, exc, cache, insts, dirs].
\* The except branch: fallback_config is the outcome of
\* SQLiteConfiguration(env_prefix, self.base_dir), whose exception propagates.
Fallback(st, alias, fallback_config) ==
    IF fallback_config.ok
    THEN [st EXCEPT
             !.config = (alias :> get_django_config(fallback_config.val.obj)) @@ @,
             !.dirs = fallback_config.val.dirs]
    ELSE [st EXCEPT !.raised = TRUE, !.exc = fallback_config.exc]

\* The try branch: got is the outcome of self.get_configuration(env_prefix).
Configured(st, environ, m, alias, env_prefix, got) ==
    IF got.out.ok
    THEN [st EXCEPT
             !.config = (alias :> get_django_config(got.insts[got.out.val].obj)) @@ @,
             !.cache = got.cache, !.insts = got.insts, !.dirs = got.dirs]
    ELSE Fallback(st, alias,
                  New("SQLiteConfiguration", environ, st.dirs, env_prefix,
                      ManagerBaseDir(m)))

ConfigureAlias(st, reg, environ, m, alias, env_prefix) ==
    Configured(st, environ, m, alias, env_prefix,
               CachedGetConfiguration(st.cache, st.insts, reg, environ, st.dirs,
                                      m, env_prefix))

NoException == [type |-> "", msg |-> "", names |-> <<>>]

\* The empty dict.
EmptyConfig == [alias \in {} |-> 0]

RECURSIVE ConfigureAll(_, _, _, _, _)
ConfigureAll(st, reg, environ, m, items) ==
    IF Len(items) = 0 \/ st.raised THEN st
    ELSE ConfigureAll(ConfigureAlias(st, reg, environ, m, items[1][1], items[1][2]),
                      reg, environ, m, Tail(items))

\* The mapping get_django_databases_config uses when it is given None.
DefaultDatabases == << <<"default", "DB">> >>

\* get_django_databases_config(databases): databases is the sequence of the
\* dict's (alias, env_prefix) items.  The result is the final loop state.
get_django_databases_config(c, heap, reg, environ, d, m, databases) ==
    ConfigureAll([config |-> EmptyConfig, raised |-> FALSE, exc |-> NoException,
                  cache |-> c, insts |-> heap, dirs |-> d],
                 reg, environ, m, databases)

----------------------------------------------------------------------------
(* Bounds and input sets.                                                  *)

\* The most configuration objects the managers build in a behaviour.
MaxInstances == 3

Prefixes == {"DB", "REPLICA"}

Aliases == {"default", "replica"}

\* The variables of one prefix when none is set.
EnvUnset ==
    [ENGINE |-> PyNone, NAME |-> PyNone, USER |-> PyNone, PASSWORD |-> PyNone,
     HOST |-> PyNone, PORT |-> PyNone, CHARSET |-> PyNone, TIMEZONE |-> PyNone,
     ATOMIC_REQUEST |-> PyNone, CONN_MAX_AGE |-> PyNone, OPTIONS |-> <<>>]

\* A complete PostgreSQL environment.
EnvPostgres ==
    [EnvUnset EXCEPT !.ENGINE = PyStr("postgresql"), !.NAME = PyStr("appdb"),
                     !.USER = PyStr("u"), !.PASSWORD = PyStr("p"), !.HOST = PyStr("h")]

\* The environments of a prefix under Spec: SQLite by default (with and
\* without a name), a complete PostgreSQL one, and the ways a configuration
\* fails to build.
ManagerEnvs ==
    { EnvUnset,
      [EnvUnset EXCEPT !.NAME = PyStr("app.db")],
      [EnvUnset EXCEPT !.NAME = PyStr("")],
      EnvPostgres,
      [EnvPostgres EXCEPT !.PASSWORD = PyNone],
      [EnvPostgres EXCEPT !.CONN_MAX_AGE = PyStr("abc")],
      [EnvPostgres EXCEPT !.ENGINE = PyStr("oracle")] }

\* A SQLite environment: only the name is set.
EnvSQLite == [EnvUnset EXCEPT !.NAME = PyStr("app.db")]

\* The environments of prefix DB under SpecBuild, where the classes are
\* constructed directly and through the factory (neither reads ENGINE):
\* every way the required variables can be unset, empty or set; the SQLite
\* names; the values that need parsing; the optional variables.
BuildEnvs ==
    { [EnvPostgres EXCEPT !.NAME = n, !.USER = u, !.PASSWORD = pw, !.HOST = h,
                          !.CONN_MAX_AGE = age] :
          n \in {PyNone, PyStr(""), PyStr("appdb")},
          u \in {PyNone, PyStr(""), PyStr("u")},
          pw \in {PyNone, PyStr(""), PyStr("p")},
          h \in {PyNone, PyStr(""), PyStr("h")},
          age \in {PyNone, PyStr("abc")} }
    \cup
    { [EnvUnset EXCEPT !.NAME = n, !.CONN_MAX_AGE = age] :
          n \in {PyNone, PyStr(""), PyStr(" "), PyStr("app.db"),
                 PyStr("/data/app.db"), PyStr("/ro/db/app.db")},
          age \in {PyNone, PyStr("abc")} }
    \cup
    { [EnvPostgres EXCEPT !.PORT = port, !.CONN_MAX_AGE = age, !.ATOMIC_REQUEST = atomic] :
          port \in {PyNone, PyStr(""), PyStr("5433"), PyStr("abc")},
          age \in {PyNone, PyStr("60"), PyStr("abc")},
          atomic \in {PyNone, PyStr("TRUE"), PyStr("maybe")} }
    \cup
    { [EnvPostgres EXCEPT !.CHARSET = cs, !.TIMEZONE = tz, !.OPTIONS = opts] :
          cs \in {PyNone, PyStr("utf8")},
          tz \in {PyNone, PyStr("UTC")},
          opts \in {<<>>, << <<"SSLMODE", "require">> >>} }

\* The identifiers create is called with.
DatabaseTypes ==
    {"postgresql", "postgres", "mysql", "MySQL", "sqlite", "sqlite3", "oracle",
     "Oracle", "mssql"}

\* The environments of prefix DB under SpecFactory.
FactoryEnvs ==
    {EnvPostgres, [EnvPostgres EXCEPT !.PASSWORD = PyNone], EnvSQLite, EnvUnset}

\* The names and classes register_database is called with.
RegisteredNames == {"oracle", "Oracle", "MySQL"}
RegisteredClasses == Classes \cup {"object"}

\* The values of <PREFIX>_ENGINE.
EngineValues ==
    {PyNone, PyStr(""), PyStr("postgresql"), PyStr("postgres"), PyStr("mysql"),
     PyStr("MySQL"), PyStr("sqlite"), PyStr("sqlite3"), PyStr("SQLite3"),
     PyStr("django.db.backends.postgresql"), PyStr("django.db.backends.mysql"),
     PyStr("django.db.backends.sqlite3"), PyStr("oracle")}

\* The environments of prefix DB under SpecEngine: every engine value, with a
\* relative, an absolute or no name, and with or without the password.
EngineEnvs ==
    { [EnvPostgres EXCEPT !.ENGINE = engine, !.NAME = n, !.PASSWORD = pw] :
          engine \in EngineValues,
          n \in {PyNone, PyStr("app.db"), PyStr("/data/app.db")},
          pw \in {PyNone, PyStr("p")} }

\* The dict arguments of get_django_databases_config, as item sequences.
DatabasesInputs ==
    {<<>>}
    \cup { << <<a, p>> >> : a \in Aliases, p \in Prefixes }
    \cup { items \in { << <<a1, p1>>, <<a2, p2>> >> :
                            a1 \in Aliases, a2 \in Aliases,
                            p1 \in Prefixes, p2 \in Prefixes } :
              items[1][1] # items[2][1] }

\* The most get_django_config calls whose results the caller holds, and the
\* most writes the caller makes to them, in a behaviour.
MaxCalls == 2
MaxWrites == 1

\* The environments of prefix DB under SpecFrame: each backend with the
\* variables that put entries into OPTIONS.  Prefix REPLICA has none of them.
FrameEnvs ==
    { [EnvPostgres EXCEPT !.ENGINE = engine, !.CHARSET = PyStr("utf8"),
                          !.TIMEZONE = PyStr("UTC"),
                          !.OPTIONS = << <<"SSLMODE", "require">> >>] :
          engine \in {PyNone, PyStr("postgresql"), PyStr("mysql")} }

\* The keys the caller assigns to and deletes.  A returned dict has 'NAME'
\* and 'OPTIONS' and has no 'TEST'; its OPTIONS mapping has 'sslmode' where
\* the environment sets it, and has 'charset' for some backends and not for
\* others.
ResultKeys == {"NAME", "TEST"}
DeletedResultKeys == {"OPTIONS"}
OptionKeys == {"charset"}
DeletedOptionKeys == {"sslmode"}

----------------------------------------------------------------------------
(* Actions.                                                                *)

InitState ==
    /\ dirs = BaseDirs
    /\ registry = InitialRegistry
    /\ cache = <<>>
    /\ insts = <<>>
    /\ last = [op |-> "init", args |-> <<>>, out |-> Return(0)]
    /\ copies = <<>>
    /\ results = <<>>
    /\ writes = 0

\* manager.get_configuration(environment_prefix)
GetConfiguration(m, environment_prefix) ==
    \E r \in {CachedGetConfiguration(cache, insts, registry, env, dirs, m,
                                     environment_prefix)} :
        /\ Len(r.insts) <= MaxInstances
        /\ cache' = r.cache
        /\ insts' = r.insts
        /\ dirs' = r.dirs
        /\ last' = [op |-> "get_configuration",
                    args |-> [self |-> m, environment_prefix |-> environment_prefix],
                    out |-> r.out]
        /\ UNCHANGED <<env, registry>>
        /\ UNCHANGED callerVars

\* manager.get_django_databases_config(databases), databases = None when not given
\* if databases is None: databases = {'default': 'DB'}
DatabasesOrDefault(given, databases) == IF given THEN databases ELSE DefaultDatabases

GetDjangoDatabasesConfig(m, given, databases) ==
    \E r \in {get_django_databases_config(cache, insts, registry, env, dirs, m,
                                          DatabasesOrDefault(given, databases))} :
        /\ Len(r.insts) <= MaxInstances
        /\ cache' = r.cache
        /\ insts' = r.insts
        /\ dirs' = r.dirs
        /\ last' = [op |-> "get_django_databases_config",
                    args |-> [self |-> m, given |-> given,
                              databases |-> DatabasesOrDefault(given, databases)],
                    out |-> IF r.raised THEN [ok |-> FALSE, exc |-> r.exc]
                            ELSE Return(r.config)]
        /\ UNCHANGED <<env, registry>>
        /\ UNCHANGED callerVars

\* What the caller of a constructor gets: the object, or the exception.
Outcome(made) == IF made.ok THEN Return(made.val.obj) ELSE made

\* cls(environment_prefix) or SQLiteConfiguration(environment_prefix, base_dir)
NewConfiguration(cls, kwargs) ==
    \E made \in {Construct(cls, env, dirs, kwargs)} :
        /\ dirs' = DirsAfter(made, dirs)
        /\ last' = [op |-> "new", args |-> [cls |-> cls, kwargs |-> kwargs],
                    out |-> Outcome(made)]
        /\ UNCHANGED <<env, registry, cache, insts>>
        /\ UNCHANGED callerVars

\* DatabaseConfigurationFactory.create(database_type, **kwargs)
Create(database_type, kwargs) ==
    \E made \in {create(registry, env, dirs, database_type, kwargs)} :
        /\ dirs' = DirsAfter(made, dirs)
        /\ last' = [op |-> "create",
                    args |-> [database_type |-> database_type, kwargs |-> kwargs],
                    out |-> Outcome(made)]
        /\ UNCHANGED <<env, registry, cache, insts>>
        /\ UNCHANGED callerVars

\* config.get_django_config() on the object the last call returned
GetDjangoConfig ==
    /\ last.op \in {"new", "create"}
    /\ last.out.ok
    /\ last' = [op |-> "get_django_config", args |-> [self |-> last.out.val],
                out |-> Return(get_django_config(last.out.val))]
    /\ UNCHANGED <<env, dirs, registry, cache, insts>>
    /\ UNCHANGED callerVars

\* DatabaseConfigurationFactory.register_database(name, config_class)
RegisterDatabase(name, config_class) ==
    \E r \in {register_database(registry, name, config_class)} :
        /\ registry' = IF r.ok THEN r.val ELSE registry
        /\ last' = [op |-> "register_database",
                    args |-> [name |-> name, config_class |-> config_class],
                    out |-> IF r.ok THEN Return(PyNone) ELSE r]
        /\ UNCHANGED <<env, dirs, cache, insts>>
        /\ UNCHANGED callerVars

\* DatabaseConfigurationFactory.get_available_databases()
GetAvailableDatabases ==
    /\ last' = [op |-> "get_available_databases", args |-> <<>>,
                out |-> Return(get_available_databases(registry))]
    /\ UNCHANGED <<env, dirs, registry, cache, insts>>
    /\ UNCHANGED callerVars

\* The keyword arguments the calls of the model pass.
KwargsInputs ==
    {Kwargs(p, FALSE, PyNone) : p \in {"DB"}}
    \cup {Kwargs(p, TRUE, b) : p \in {"DB"}, b \in {PyNone, PyStr("/srv/app")}}

\* The keyword arguments the constructor of cls accepts.
KwargsFor(cls) ==
    {k \in KwargsInputs : k.has_base_dir => cls = "SQLiteConfiguration"}

\* The caller has changed a dict that get_django_config of insts[i] returned,
\* or its OPTIONS mapping.
Changed(i) ==
    \E j \in DOMAIN results :
        /\ results[j].self = i
        /\ Contents(insts, copies, results[j].config) # results[j].returned

\* config = insts[i].get_django_config(), the caller keeps config
GetDjangoConfigOf(i) ==
    /\ Len(results) < MaxCalls
    /\ \E r \in {GetDjangoConfigOnHeap(insts, copies, i)} :
        /\ insts' = r.insts
        /\ copies' = r.copies
        /\ results' = Append(results,
                             [self |-> i,
                              returned |-> Contents(r.insts, r.copies, r.config),
                              config |-> r.config,
                              changed |-> Changed(i)])
        /\ last' = [op |-> "get_django_config", args |-> [self |-> i],
                    out |-> Return(Contents(r.insts, r.copies, r.config))]
        /\ UNCHANGED <<env, dirs, registry, cache, writes>>

\* config[key] = value, by the caller on the j-th dict it holds
SetResultItem(j, key, value) ==
    /\ writes < MaxWrites
    /\ results' = [results EXCEPT ![j].config = SetItem(@, key, value)]
    /\ writes' = writes + 1
    /\ UNCHANGED <<env, dirs, registry, cache, insts, last, copies>>

\* del config[key]
DelResultItem(j, key) ==
    /\ writes < MaxWrites
    /\ key \in DOMAIN results[j].config
    /\ results' = [results EXCEPT ![j].config = DelItem(@, key)]
    /\ writes' = writes + 1
    /\ UNCHANGED <<env, dirs, registry, cache, insts, last, copies>>

\* The j-th dict still has the OPTIONS mapping it was returned with.
HasOptions(j) ==
    /\ "OPTIONS" \in DOMAIN results[j].config
    /\ IsRef(results[j].config.OPTIONS)

\* config['OPTIONS'][key] = value
SetOption(j, key, value) ==
    /\ writes < MaxWrites
    /\ HasOptions(j)
    /\ \E ref \in {results[j].config.OPTIONS} :
       \E stored \in {Store(insts, copies, ref,
                            DictSet(Deref(insts, copies, ref), key, value))} :
        /\ insts' = stored.insts
        /\ copies' = stored.copies
    /\ writes' = writes + 1
    /\ UNCHANGED <<env, dirs, registry, cache, last, results>>

\* del config['OPTIONS'][key]
DelOption(j, key) ==
    /\ writes < MaxWrites
    /\ HasOptions(j)
    /\ \E ref \in {results[j].config.OPTIONS} :
        /\ DictHasKey(Deref(insts, copies, ref), key)
        /\ \E stored \in {Store(insts, copies, ref,
                                 DictDel(Deref(insts, copies, ref), key))} :
            /\ insts' = stored.insts
            /\ copies' = stored.copies
    /\ writes' = writes + 1
    /\ UNCHANGED <<env, dirs, registry, cache, last, results>>

Init ==
    /\ env \in [Prefixes -> ManagerEnvs]
    /\ InitState

Next ==
    \/ \E m \in Managers, p \in Prefixes : GetConfiguration(m, p)
    \/ \E m \in Managers, dbs \in DatabasesInputs : GetDjangoDatabasesConfig(m, TRUE, dbs)
    \/ \E m \in Managers : GetDjangoDatabasesConfig(m, FALSE, <<>>)

Spec == Init /\ [][Next]_vars

\* The classes built directly and through the factory, in every environment
\* of BuildEnvs.
InitBuild ==
    /\ \E e \in BuildEnvs : env = [p \in Prefixes |-> IF p = "DB" THEN e ELSE EnvUnset]
    /\ InitState

NextBuild ==
    \/ \E cls \in Classes : \E kwargs \in KwargsFor(cls) : NewConfiguration(cls, kwargs)
    \/ \E t \in DatabaseTypes, kwargs \in KwargsInputs : Create(t, kwargs)
    \/ GetDjangoConfig

SpecBuild == InitBuild /\ [][NextBuild]_vars

\* The factory and its registry.
InitFactory ==
    /\ \E e \in FactoryEnvs : env = [p \in Prefixes |-> IF p = "DB" THEN e ELSE EnvUnset]
    /\ InitState

NextFactory ==
    \/ \E n \in RegisteredNames, c \in RegisteredClasses : RegisterDatabase(n, c)
    \/ \E t \in DatabaseTypes, kwargs \in KwargsInputs : Create(t, kwargs)
    \/ GetAvailableDatabases

SpecFactory == InitFactory /\ [][NextFactory]_vars

\* get_configuration for every value of <PREFIX>_ENGINE.
InitEngine ==
    /\ \E e \in EngineEnvs : env = [p \in Prefixes |-> IF p = "DB" THEN e ELSE EnvSQLite]
    /\ InitState

NextEngine == \E m \in Managers, p \in Prefixes : GetConfiguration(m, p)

SpecEngine == InitEngine /\ [][NextEngine]_vars

\* The configuration objects of the managers, the dicts their
\* get_django_config returns, and what the caller writes to those dicts.
InitFrame ==
    /\ \E e \in FrameEnvs : env = [p \in Prefixes |-> IF p = "DB" THEN e ELSE EnvSQLite]
    /\ InitState

NextFrame ==
    \/ \E p \in Prefixes : GetConfiguration("m1", p)
    \/ \E i \in DOMAIN insts : GetDjangoConfigOf(i)
    \/ \E j \in DOMAIN results, key \in ResultKeys :
           SetResultItem(j, key, PyStr("changed"))
    \/ \E j \in DOMAIN results, key \in DeletedResultKeys : DelResultItem(j, key)
    \/ \E j \in DOMAIN results, key \in OptionKeys : SetOption(j, key, "changed")
    \/ \E j \in DOMAIN results, key \in DeletedOptionKeys : DelOption(j, key)

SpecFrame == InitFrame /\ [][NextFrame]_vars

----------------------------------------------------------------------------
(* Properties.                                                             *)

UnsetOrEmpty(v) == v = PyNone \/ v = PyStr("")

SQLiteEngine == "django.db.backends.sqlite3"

\* Whether building the configuration of a prefix fails for manager m.
BuildFails(m, prefix) ==
    ~get_configuration(registry, env, dirs, ManagerBaseDir(m), prefix).ok

\* C1: get_django_databases_config never propagates a configuration failure:
\* it returns a mapping with an entry for every alias, and the entry of an
\* alias whose configuration failed to build is a SQLite dictionary.
C1_NeverPropagates ==
    last.op = "get_django_databases_config" =>
        /\ last.out.ok
        /\ \A i \in 1..Len(last.args.databases) :
               LET alias == last.args.databases[i][1]
                   prefix == last.args.databases[i][2]
               IN  /\ alias \in DOMAIN last.out.val
                   /\ BuildFails(last.args.self, prefix) =>
                          last.out.val[alias].ENGINE = SQLiteEngine

\* The object the first successful get_configuration(prefix) of manager m built.
FirstInstance(m, prefix) ==
    CHOOSE i \in 1..Len(insts) :
        /\ insts[i].self = m /\ insts[i].obj.env_prefix = prefix
        /\ \A j \in 1..(i - 1) :
               ~(insts[j].self = m /\ insts[j].obj.env_prefix = prefix)

\* C2: every successful get_configuration call of a manager with a prefix
\* returns the object the first successful call with that prefix returned.
C2_SameInstancePerPrefix ==
    (last.op = "get_configuration" /\ last.out.ok) =>
        last.out.val = FirstInstance(last.args.self, last.args.environment_prefix)

NetworkClasses == {"PostgreSQLConfiguration", "MySQLConfiguration"}

\* The required variables of cls that are unset or empty under prefix.
UnsetOrEmptyVars(cls, prefix) ==
    {FullVarName(prefix, REQUIRED_ENV_VARS(cls)[i]) :
         i \in {j \in 1..Len(REQUIRED_ENV_VARS(cls)) :
                    UnsetOrEmpty(env[prefix][REQUIRED_ENV_VARS(cls)[j]])}}

Range(seq) == {seq[i] : i \in 1..Len(seq)}

\* C3: constructing a PostgreSQL/MySQL configuration with required variables
\* unset or empty fails with a configuration error that names every one of
\* them, also when <PREFIX>_NAME is among them.
C3_NamesEveryMissingVariable ==
    (/\ last.op = "new"
     /\ last.args.cls \in NetworkClasses
     /\ UnsetOrEmptyVars(last.args.cls, last.args.kwargs.environment_prefix) # {}) =>
        /\ ~last.out.ok
        /\ IsInstance(last.out.exc, "DatabaseConfigurationError")
        /\ UnsetOrEmptyVars(last.args.cls, last.args.kwargs.environment_prefix)
               \subseteq Range(last.out.exc.names)

\* C4: a non-integer PORT or CONN_MAX_AGE or an unrecognised boolean never
\* makes construction fail and never reaches the emitted dictionary: the
\* defaults are emitted instead, and the emitted PORT is an integer.
C4_ParsedDefensively ==
    /\ (/\ last.op = "new"
        /\ last.args.cls \in NetworkClasses
        /\ UnsetOrEmptyVars(last.args.cls, last.args.kwargs.environment_prefix) = {}) =>
           last.out.ok
    /\ (/\ last.op = "get_django_config"
        /\ last.args.self.cls \in NetworkClasses) =>
           LET e == env[last.args.self.env_prefix]
           IN  /\ last.out.val.PORT.type = "int"
               /\ (e.PORT.type = "str" /\ ~IsIntLiteral(e.PORT.str)) =>
                      last.out.val.PORT = DEFAULT_PORT(last.args.self.cls)
               /\ (e.CONN_MAX_AGE.type = "str" /\ ~IsIntLiteral(e.CONN_MAX_AGE.str)) =>
                      last.out.val.CONN_MAX_AGE = 0
               /\ e.ATOMIC_REQUEST = PyStr("maybe") =>
                      last.out.val.ATOMIC_REQUESTS = FALSE

Reverse(seq) == [i \in 1..Len(seq) |-> seq[Len(seq) + 1 - i]]

\* C5: when get_django_databases_config returns, the entry of every alias is
\* the entry the alias gets when it is the only alias of the mapping (from the
\* same state), the entry of an alias whose configuration failed to build is
\* a SQLite dictionary, and the mapping in the opposite order gives the same
\* result.
C5_OtherAliasesUnaffected ==
    [][(last'.op = "get_django_databases_config" /\ last'.out.ok) =>
          /\ \A i \in 1..Len(last'.args.databases) :
                 LET item == last'.args.databases[i]
                     alone == get_django_databases_config(
                                  cache, insts, registry, env, dirs,
                                  last'.args.self, <<item>>)
                 IN  /\ ~alone.raised
                     /\ last'.out.val[item[1]] = alone.config[item[1]]
                     /\ BuildFails(last'.args.self, item[2]) =>
                            last'.out.val[item[1]].ENGINE = SQLiteEngine
          /\ LET opposite == get_django_databases_config(
                                 cache, insts, registry, env, dirs,
                                 last'.args.self, Reverse(last'.args.databases))
             IN  ~opposite.raised /\ opposite.config = last'.out.val
      ]_vars

\* C5 witness: a returned two-alias mapping where one alias failed to build
\* (and got the fallback) and the other is a PostgreSQL configuration.
C5_Witness ==
    /\ last.op = "get_django_databases_config"
    /\ last.out.ok
    /\ Len(last.args.databases) = 2
    /\ \E i, j \in 1..2 :
           /\ BuildFails(last.args.self, last.args.databases[i][2])
           /\ last.out.val[last.args.databases[i][1]].ENGINE = SQLiteEngine
           /\ ~BuildFails(last.args.self, last.args.databases[j][2])
           /\ last.out.val[last.args.databases[j][1]].ENGINE
                  = "django.db.backends.postgresql"

\* The short name of a full framework engine string.
ShortEngineName(engine) ==
    CASE engine = "django.db.backends.postgresql" -> "postgresql"
      [] engine = "django.db.backends.mysql" -> "mysql"
      [] engine = "django.db.backends.sqlite3" -> "sqlite"

FullEngineNames ==
    {"django.db.backends.postgresql", "django.db.backends.mysql",
     "django.db.backends.sqlite3"}

\* The outcome of get_configuration of manager m when <PREFIX>_ENGINE is engine
\* and the rest of the environment is as it is.
WithEngine(m, prefix, engine) ==
    get_configuration(registry, [env EXCEPT ![prefix].ENGINE = PyStr(engine)], dirs,
                      ManagerBaseDir(m), prefix)

\* C6: get_configuration resolves the backend from <PREFIX>_ENGINE: unset or
\* empty gives a SQLiteConfiguration, 'postgres' and 'postgresql' give a
\* PostgreSQLConfiguration, and a full framework engine string gives what its
\* short name gives in the same environment: the same class and settings
\* dictionary, or a failure alike.
C6_EngineResolution ==
    last.op = "get_configuration" =>
        LET m == last.args.self
            prefix == last.args.environment_prefix
            engine == env[prefix].ENGINE
        IN  /\ (UnsetOrEmpty(engine) /\ last.out.ok) =>
                   insts[last.out.val].obj.cls = "SQLiteConfiguration"
            /\ (engine \in {PyStr("postgres"), PyStr("postgresql")} /\ last.out.ok) =>
                   insts[last.out.val].obj.cls = "PostgreSQLConfiguration"
            /\ (engine.type = "str" /\ engine.str \in FullEngineNames) =>
                   /\ last.out.ok = WithEngine(m, prefix, ShortEngineName(engine.str)).ok
                   /\ last.out.ok =>
                          /\ insts[last.out.val].obj.cls =
                                 WithEngine(m, prefix, ShortEngineName(engine.str)).val.obj.cls
                          /\ get_django_config(insts[last.out.val].obj) =
                                 get_django_config(
                                     WithEngine(m, prefix,
                                                ShortEngineName(engine.str)).val.obj)
                   /\ ~last.out.ok =>
                          last.out.exc =
                              WithEngine(m, prefix, ShortEngineName(engine.str)).exc

\* C6 witness: the manager with a base directory returned a configuration for
\* the full SQLite engine string and a relative name.
C6_Witness ==
    /\ last.op = "get_configuration"
    /\ last.out.ok
    /\ last.args.self = "m1"
    /\ env[last.args.environment_prefix].ENGINE = PyStr("django.db.backends.sqlite3")
    /\ env[last.args.environment_prefix].NAME = PyStr("app.db")
    /\ get_django_config(insts[last.out.val].obj).NAME = PyStr("/srv/app/app.db")

\* C7: create with an identifier whose lower-cased form is not registered
\* raises UnsupportedDatabaseError, builds nothing, leaves the registry as it
\* is and lists exactly the registered identifiers; with a registered one it
\* never raises UnsupportedDatabaseError.
C7_UnsupportedListsRegistry ==
    [][last'.op = "create" =>
          /\ registry' = registry
          /\ ~RegistryHas(registry, Lower(last'.args.database_type)) =>
                 /\ ~last'.out.ok
                 /\ last'.out.exc.type = "UnsupportedDatabaseError"
                 /\ last'.out.exc.names = get_available_databases(registry)
                 /\ dirs' = dirs
          /\ RegistryHas(registry, Lower(last'.args.database_type)) =>
                 (last'.out.ok \/ last'.out.exc.type # "UnsupportedDatabaseError")
      ]_vars

\* C7 witness: after a registration, create of an unregistered identifier
\* raised the error that lists the six registered identifiers.
C7_Witness ==
    /\ last.op = "create"
    /\ ~last.out.ok
    /\ last.out.exc.type = "UnsupportedDatabaseError"
    /\ last.out.exc.names =
           <<"postgresql", "postgres", "mysql", "sqlite", "sqlite3", "oracle">>

\* The class create resolves database_type to.
ResolvedClass(database_type) ==
    IF RegistryHas(registry, Lower(database_type))
    THEN RegistryGet(registry, Lower(database_type)) ELSE "none"

\* The class a "new" or "create" call constructs.
ConstructedClass ==
    CASE last.op = "new" -> last.args.cls
      [] last.op = "create" -> ResolvedClass(last.args.database_type)
      [] OTHER -> "none"

\* C8: constructing a PostgreSQL/MySQL configuration, directly or through the
\* factory, while USER, PASSWORD or HOST is unset or empty raises a
\* DatabaseConfigurationError or a subclass of it; an emitted PostgreSQL/MySQL
\* dictionary has non-empty NAME, USER, PASSWORD and HOST.
C8_MissingCredentialIsConfigurationError ==
    /\ (/\ last.op \in {"new", "create"}
        /\ ConstructedClass \in NetworkClasses
        /\ ~last.args.kwargs.has_base_dir
        /\ \E var \in {"USER", "PASSWORD", "HOST"} :
               UnsetOrEmpty(env[last.args.kwargs.environment_prefix][var])) =>
           /\ ~last.out.ok
           /\ IsInstance(last.out.exc, "DatabaseConfigurationError")
    /\ (last.op = "get_django_config" /\ last.args.self.cls \in NetworkClasses) =>
           \A key \in {"NAME", "USER", "PASSWORD", "HOST"} :
               Truthy(last.out.val[key])

\* C9: a SQLite configuration the manager yields, when the manager has a base
\* directory, has its name resolved against the base directory unless the
\* name is absolute ('db.sqlite3' when <PREFIX>_NAME is unset).
C9_SQLiteNameUnderBaseDir ==
    (/\ last.op = "get_configuration"
     /\ last.out.ok
     /\ insts[last.out.val].obj.cls = "SQLiteConfiguration"
     /\ Truthy(ManagerBaseDir(last.args.self))) =>
        LET given == env[last.args.environment_prefix].NAME
            name == IF given = PyNone THEN "db.sqlite3" ELSE given.str
        IN  get_django_config(insts[last.out.val].obj).NAME =
                PyStr(IF IsAbs(name) THEN name
                      ELSE ManagerBaseDir(last.args.self).str \o "/" \o name)

\* C10: a PostgreSQL or MySQL configuration built without <PREFIX>_PORT emits
\* the default port of its backend: 5432 for PostgreSQL, 3306 for MySQL.
C10_DefaultPort ==
    (/\ last.op = "get_django_config"
     /\ last.args.self.cls \in NetworkClasses
     /\ env[last.args.self.env_prefix].PORT = PyNone) =>
        last.out.val.PORT =
            PyInt(IF last.args.self.cls = "PostgreSQLConfiguration" THEN 5432 ELSE 3306)

\* C10 witness: a MySQL configuration built without a port emitted its
\* dictionary.
C10_Witness ==
    /\ last.op = "get_django_config"
    /\ last.args.self.cls = "MySQLConfiguration"
    /\ env[last.args.self.env_prefix].PORT = PyNone
    /\ last.out.val.PORT = PyInt(3306)

\* C11: get_django_config neither exposes nor changes the state of the
\* configuration object: no step, a get_django_config call or a write of the
\* caller to a dict such a call returned (to the dict or to its OPTIONS
\* mapping), changes the credentials or the options of any configuration
\* object, cached or not, and every call on an object returns a dict equal
\* to the one the first call on it returned.
C11_GetDjangoConfigFrame ==
    [][ /\ \A i \in DOMAIN insts : insts'[i] = insts[i]
        /\ \A j, k \in DOMAIN results' :
               results'[j].self = results'[k].self
                   => results'[j].returned = results'[k].returned ]_vars

\* A cached object whose get_django_config was called twice, the caller
\* having written to the OPTIONS mapping of the first result before the
\* second call.
C11_Witness ==
    \E j, k \in DOMAIN results :
        /\ j < k
        /\ results[j].self = results[k].self
        /\ \E c \in DOMAIN cache : cache[c].val = results[j].self
        /\ results[k].changed
        /\ HasOptions(j)
        /\ Deref(insts, copies, results[j].config.OPTIONS) # results[j].returned.OPTIONS

====
